---- MODULE Spec2Model ----
(***************************************************************************)
(* MediCare-BE (src/main.py): OTP login, session credentials, cart and     *)
(* order placement, and the delivery-OTP confirmation workflow.            *)
(*                                                                         *)
(* Every request handler is a coroutine; each `await` on the key-value     *)
(* store (redis) or on the document store (MongoDB collections) is one     *)
(* atomic step, and the steps of concurrent requests interleave freely.    *)
(* Code that runs between two awaits touches only the request's locals and *)
(* is folded into the store step that follows it.                          *)
(***************************************************************************)
EXTENDS Integers, Sequences, FiniteSets, TLC

(* ------------------------------ bounds --------------------------------- *)
\* concurrent request slots
NumProcs == 2
\* last clock value (seconds) the model explores
MaxTime == 1
\* documents the orders collection may grow to
MaxOrders == 2
\* largest quantity a cart line may reach
MaxQty == 2
\* on-hand quantity of every product in the initial catalog
InitStock == 3
\* send_delivery_otp is explored for an order while fewer than this many
\* line-item decrements have been applied for it
MaxDecrements == 1

(* ------------------------ configuration (env) -------------------------- *)
\* Both lifetimes are read from the environment at start-up (defaults 300
\* and 3600); the model runs the deployment configured with
\* OTP_TTL_SECONDS=1 and ACCESS_TOKEN_EXPIRE_SECONDS=1.
OTP_TTL_SECONDS == 1
ACCESS_TOKEN_EXPIRE_SECONDS == 1

Nil == "nil"
\* the None a missing redis key reads as
NoHash == <<"none", 0>>
NoRecord == [hash |-> NoHash, expires_at |-> 0]
Procs == 1..NumProcs

(* ------------------------------ inputs --------------------------------- *)
\* Raw phone_number strings a client may submit: a number written with
\* separators, a number already in E.164, and a string phonenumbers rejects.
RawPhones == {"+1 415-555-2671", "+919876543210", "12345"}
InvalidPhone == "ValueError"

\* phonenumbers.parse + is_valid_number + format_number(E164)
normalize_phone_e164(phone) ==
    CASE phone = "+1 415-555-2671" -> "+14155552671"
      [] phone = "+919876543210"   -> "+919876543210"
      [] OTHER                     -> InvalidPhone

Identities == {normalize_phone_e164(r) : r \in RawPhones} \ {InvalidPhone}

\* generate_otp(6): a string of 6 decimal digits; the codes the model draws
Codes == {"482913", "007731"}
\* what a client may submit as `otp`
Candidates == Codes

\* HMAC-SHA256 keyed by HMAC_SECRET, hex digest: deterministic, collision
\* free on the inputs of the model, and never equal to its input.
hmac_hash(value) == <<"hmac", value>>

\* Variant of compare_digest that takes any two digests for equal.
compare_digest_always(a, b) == TRUE

\* hmac.compare_digest
compare_digest(a, b) == a = b

\* Variant of delivery_otp_key that leaves the order id out of the key.
delivery_otp_key_Shared(order_id) == <<"delivery_otp", <<0, "malformed">>>>

\* f"otp:{phone}" and f"delivery_otp:{order_id}"
otp_key(phone) == <<"otp", phone>>
delivery_otp_key(order_id) == <<"delivery_otp", order_id>>

\* ObjectIds of the orders collection, in insertion order
ObjectIds == 1..MaxOrders
\* order_id strings a client may submit: the 24 hex digits str(ObjectId)
\* returns for an ObjectId (the spelling every response of the program
\* carries), or a string that is no ObjectId.
MalformedId == <<0, "malformed">>
OrderIdStrings == (ObjectIds \X {"hex"}) \cup {MalformedId}
\* the InvalidId exception of bson
InvalidId == 0
\* bson.ObjectId(order_id)
ObjectId(order_id) == IF order_id = MalformedId THEN InvalidId ELSE order_id[1]

Products == {"1", "2"}
Statuses == {"Order Placed", "Dispatched", "Delivered", "Cancelled"}
\* a status string outside the accepted list
BadStatus == "Returned"

RedisKeys == {otp_key(ph) : ph \in Identities}
                \cup {delivery_otp_key(s) : s \in OrderIdStrings}

(* ---------------------------- credentials ------------------------------ *)
NoCredential == [kind |-> "none", sub |-> Nil, exp |-> 0]
\* jwt.encode(payload, SECRET_KEY): sub, exp (iat = nbf = exp - lifetime)
create_access_token(phone, t) ==
    [kind |-> "signed", sub |-> phone, exp |-> t + ACCESS_TOKEN_EXPIRE_SECONDS]
\* a token not signed with SECRET_KEY
ForgedTokens == {[kind |-> "forged", sub |-> ph, exp |-> MaxTime + 1] : ph \in Identities}

\* Variant of get_current_user that decodes without checking `exp`.
get_current_user_NoExpiry(cred, t) ==
    CASE cred.kind = "none" ->
            {[ok |-> FALSE, sub |-> Nil, code |-> c, detail |-> "Not authenticated"] :
                c \in {401, 403}}
      [] cred.kind = "forged" ->
            {[ok |-> FALSE, sub |-> Nil, code |-> 401, detail |-> "Invalid token"]}
      [] OTHER ->
            {[ok |-> TRUE, sub |-> cred.sub, code |-> 200, detail |-> Nil]}

\* get_current_user (Depends(security), jwt.decode): the outcomes the
\* dependency can have for a credential at time t.  A token signed with
\* SECRET_KEY yields its subject while its expiry lies ahead and "Token
\* expired" once it is past; at the second of expiry itself the outcome is
\* that of the installed PyJWT (releases before 2.0 reject exp < now, later
\* ones exp <= now).  Any other token is "Invalid token".  A request
\* without a credential is turned away by HTTPBearer itself, with 403 or,
\* in recent FastAPI releases, 401.
get_current_user(cred, t) ==
    CASE cred.kind = "none" ->
            {[ok |-> FALSE, sub |-> Nil, code |-> c, detail |-> "Not authenticated"] :
                c \in {401, 403}}
      [] cred.kind = "forged" ->
            {[ok |-> FALSE, sub |-> Nil, code |-> 401, detail |-> "Invalid token"]}
      [] cred.kind = "signed" /\ cred.exp < t ->
            {[ok |-> FALSE, sub |-> Nil, code |-> 401, detail |-> "Token expired"]}
      [] cred.kind = "signed" /\ cred.exp = t ->
            {[ok |-> FALSE, sub |-> Nil, code |-> 401, detail |-> "Token expired"],
             [ok |-> TRUE, sub |-> cred.sub, code |-> 200, detail |-> Nil]}
      [] OTHER ->
            {[ok |-> TRUE, sub |-> cred.sub, code |-> 200, detail |-> Nil]}

(* ------------------------------- state --------------------------------- *)
VARIABLES
    now,                  \* wall clock, seconds
    redis,                \* key -> NoRecord or [hash, expires_at]
    users_col,            \* identities that have a users document
    carts_col,            \* identity -> items of its cart document, <<>> if none
    orders_col,           \* sequence of orders; the index is the ObjectId
    products_collection,  \* product id -> on-hand quantity
    tokens,               \* identity -> expiry of the credential minted last
                          \*             for it (0: none was minted)
    pc,                   \* per request slot: position in its handler
    req,                  \* per request slot: the request being served
    loc,                  \* per request slot: the handler's locals
    last,                 \* the response (or log line) the last step produced
    consumed,             \* history: identity -> a /verify-otp succeeded for
                          \*          it since the latest /send-otp for it
    decrements            \* history: $inc updates applied per ObjectId

vars == <<now, redis, users_col, carts_col, orders_col, products_collection,
          tokens, pc, req, loc, last, consumed, decrements>>

NoReq == [op |-> "none", cred |-> NoCredential, phone_number |-> Nil, otp |-> Nil,
          order_id |-> MalformedId, status |-> Nil, product_id |-> Nil, quantity |-> 0]
\* `before` is history: the catalog as it was when the request arrived
NoLoc == [stored |-> NoHash, items |-> <<>>, obj_id |-> 0, i |-> 0, before |-> <<>>]
NoResp == [code |-> 0, detail |-> Nil]
\* `issued` and `replaced` are history of an issuing request: the code it
\* generated and the live hash its redis.set overwrote
NoEvent == [req |-> NoReq, resp |-> NoResp, issued |-> Nil, replaced |-> NoHash]

\* Request slots are interchangeable: a new request takes the lowest idle one.
Free(p) == pc[p] = "idle" /\ \A q \in Procs : q < p => pc[q] # "idle"

HTTP(code, detail) == [code |-> code, detail |-> detail]
Event(r, response) ==
    [req |-> r, resp |-> response, issued |-> Nil, replaced |-> NoHash]

\* redis GET: a key whose expiry time has been reached is absent
RedisGet(key) ==
    IF redis[key] # NoRecord /\ now < redis[key].expires_at
    THEN redis[key].hash ELSE NoHash
\* Variant of RedisSet that leaves a live record in place (SET ... NX).
RedisSet_KeepsLive(key, value, ttl) ==
    IF redis[key] # NoRecord /\ now < redis[key].expires_at
    THEN redis
    ELSE [redis EXCEPT ![key] = [hash |-> value, expires_at |-> now + ttl]]
\* redis SET key value EX ttl
RedisSet(key, value, ttl) ==
    [redis EXCEPT ![key] = [hash |-> value, expires_at |-> now + ttl]]
\* redis DEL
RedisDelete(key) == [redis EXCEPT ![key] = NoRecord]

Init ==
    /\ now = 0
    /\ redis = [k \in RedisKeys |-> NoRecord]
    /\ users_col = {}
    /\ carts_col = [ph \in Identities |-> <<>>]
    /\ orders_col = <<>>
    /\ products_collection = [pr \in Products |-> InitStock]
    /\ tokens = [ph \in Identities |-> 0]
    /\ pc = [p \in Procs |-> "idle"]
    /\ req = [p \in Procs |-> NoReq]
    /\ loc = [p \in Procs |-> NoLoc]
    /\ last = NoEvent
    /\ consumed = [ph \in Identities |-> FALSE]
    /\ decrements = [o \in ObjectIds |-> 0]

\* The handler of slot p returns (or raises) `response` for request r.
Respond(p, r, response) ==
    /\ pc' = [pc EXCEPT ![p] = "idle"]
    /\ req' = [req EXCEPT ![p] = NoReq]
    /\ loc' = [loc EXCEPT ![p] = NoLoc]
    /\ last' = Event(r, response)

\* The handler of slot p moves on to the await at `label`.
Goto(p, label, r, l) ==
    /\ pc' = [pc EXCEPT ![p] = label]
    /\ req' = [req EXCEPT ![p] = r]
    /\ loc' = [loc EXCEPT ![p] = l]
    /\ last' = NoEvent

(* ------------------------------ /send-otp ------------------------------ *)
\* send_otp_route: normalize, generate, hash, redis.set, queue deliver_otp,
\* respond.  The queued task runs after the response has been sent.
SendOtp(p) ==
    /\ Free(p)
    /\ \E raw \in RawPhones :
        LET r == [NoReq EXCEPT !.op = "send_otp", !.phone_number = raw]
            phone == normalize_phone_e164(raw)
        IN  IF phone = InvalidPhone
            THEN /\ Respond(p, r, HTTP(400, "Invalid phone number format"))
                 /\ UNCHANGED <<redis, consumed>>
            ELSE \E otp \in Codes :
                 /\ redis' = RedisSet(otp_key(phone), hmac_hash(otp), OTP_TTL_SECONDS)
                 /\ consumed' = [consumed EXCEPT ![phone] = FALSE]
                 /\ pc' = [pc EXCEPT ![p] = "deliver_otp"]
                 /\ req' = [req EXCEPT ![p] = [NoReq EXCEPT !.op = "deliver_otp"]]
                 /\ loc' = [loc EXCEPT ![p] = NoLoc]
                 /\ last' = [Event(r, HTTP(200, "OTP dispatched"))
                                EXCEPT !.issued = otp,
                                       !.replaced = RedisGet(otp_key(phone))]
    /\ UNCHANGED <<now, users_col, carts_col, orders_col, products_collection,
                   tokens, decrements>>

\* Variant of DeliverOtp that rolls the issuance back when the channel
\* raises: the stored codes are deleted.
DeliverOtp_RollsBack(p) ==
    /\ pc[p] = "deliver_otp"
    /\ \E outcome \in {"OTP sent", "Failed to deliver OTP"} :
        /\ last' = Event([NoReq EXCEPT !.op = "deliver_otp"], HTTP(0, outcome))
        /\ redis' = IF outcome = "OTP sent" THEN redis
                    ELSE [k \in RedisKeys |-> NoRecord]
    /\ pc' = [pc EXCEPT ![p] = "idle"]
    /\ req' = [req EXCEPT ![p] = NoReq]
    /\ loc' = [loc EXCEPT ![p] = NoLoc]
    /\ UNCHANGED <<now, users_col, carts_col, orders_col,
                   products_collection, tokens, consumed, decrements>>

\* deliver_otp, the background task of a request that issued an OTP: the
\* message goes out, or the channel raises and the exception is only logged.
DeliverOtp(p) ==
    /\ pc[p] = "deliver_otp"
    /\ \E outcome \in {"OTP sent", "Failed to deliver OTP"} :
        /\ last' = Event([NoReq EXCEPT !.op = "deliver_otp"], HTTP(0, outcome))
    /\ pc' = [pc EXCEPT ![p] = "idle"]
    /\ req' = [req EXCEPT ![p] = NoReq]
    /\ loc' = [loc EXCEPT ![p] = NoLoc]
    /\ UNCHANGED <<now, redis, users_col, carts_col, orders_col,
                   products_collection, tokens, consumed, decrements>>

(* ----------------------------- /verify-otp ----------------------------- *)
\* Variant of VerifyOtpGet that deletes the record when the code differs.
VerifyOtpGet_DeletesOnMismatch(p) ==
    /\ Free(p)
    /\ \E raw \in RawPhones, otp \in Candidates :
        LET r == [NoReq EXCEPT !.op = "verify_otp", !.phone_number = raw, !.otp = otp]
            phone == normalize_phone_e164(raw)
            stored == RedisGet(otp_key(phone))
        IN  IF phone = InvalidPhone
            THEN Respond(p, r, HTTP(400, "Invalid phone number")) /\ UNCHANGED redis
            ELSE IF stored = NoHash
            THEN Respond(p, r, HTTP(400, "OTP not found or expired")) /\ UNCHANGED redis
            ELSE IF ~compare_digest(hmac_hash(otp), stored)
            THEN /\ Respond(p, r, HTTP(400, "Invalid OTP"))
                 /\ redis' = RedisDelete(otp_key(phone))
            ELSE /\ Goto(p, "verify_otp_delete", r, [NoLoc EXCEPT !.stored = stored])
                 /\ UNCHANGED redis
    /\ UNCHANGED <<now, users_col, carts_col, orders_col,
                   products_collection, tokens, consumed, decrements>>

\* verify_otp_route up to its second await: normalize, redis.get, compare.
VerifyOtpGet(p) ==
    /\ Free(p)
    /\ \E raw \in RawPhones, otp \in Candidates :
        LET r == [NoReq EXCEPT !.op = "verify_otp", !.phone_number = raw, !.otp = otp]
            phone == normalize_phone_e164(raw)
            stored == RedisGet(otp_key(phone))
        IN  IF phone = InvalidPhone
            THEN Respond(p, r, HTTP(400, "Invalid phone number"))
            ELSE IF stored = NoHash
            THEN Respond(p, r, HTTP(400, "OTP not found or expired"))
            ELSE IF ~compare_digest(hmac_hash(otp), stored)
            THEN Respond(p, r, HTTP(400, "Invalid OTP"))
            ELSE Goto(p, "verify_otp_delete", r, [NoLoc EXCEPT !.stored = stored])
    /\ UNCHANGED <<now, redis, users_col, carts_col, orders_col,
                   products_collection, tokens, consumed, decrements>>

\* Variant of VerifyOtpDelete without the redis.delete: the record outlives
\* the verification that accepted it.
VerifyOtpDelete_KeepsRecord(p) ==
    /\ pc[p] = "verify_otp_delete"
    /\ LET phone == normalize_phone_e164(req[p].phone_number)
       IN  /\ tokens' = [tokens EXCEPT ![phone] = create_access_token(phone, now).exp]
           /\ consumed' = [consumed EXCEPT ![phone] = TRUE]
           /\ Respond(p, req[p], HTTP(200, "bearer"))
    /\ UNCHANGED <<now, redis, users_col, carts_col, orders_col,
                   products_collection, decrements>>

\* verify_otp_route from redis.delete on: delete, mint, respond.
VerifyOtpDelete(p) ==
    /\ pc[p] = "verify_otp_delete"
    /\ LET phone == normalize_phone_e164(req[p].phone_number)
       IN  /\ redis' = RedisDelete(otp_key(phone))
           /\ tokens' = [tokens EXCEPT ![phone] = create_access_token(phone, now).exp]
           /\ consumed' = [consumed EXCEPT ![phone] = TRUE]
           /\ Respond(p, req[p], HTTP(200, "bearer"))
    /\ UNCHANGED <<now, users_col, carts_col, orders_col, products_collection,
                   decrements>>

(* ------------------------- orders collection --------------------------- *)
\* An order document as place_order builds it: the owner's users document
\* (of which only the phone is read afterwards), the line items and the
\* status.  name, price, total and created_at are written once and never
\* read by a handler, and are left out.
Item(id, qty) == [id |-> id, qty |-> qty]
Order(phone, items) == [user |-> phone, items |-> items, status |-> "Order Placed"]

\* orders_col().find_one({"_id": obj_id})
FindOrder(obj_id) == IF obj_id \in 1..Len(orders_col) THEN orders_col[obj_id] ELSE Nil
OrderExists(obj_id) == obj_id \in 1..Len(orders_col)

\* Credentials a client presents: none, or the latest one minted for an
\* identity.
Credentials ==
    {NoCredential}
      \cup {[kind |-> "signed", sub |-> ph, exp |-> tokens[ph]] :
                ph \in {i \in Identities : tokens[i] # 0}}

(* --------------------- /order/update-status/{id} ----------------------- *)
\* update_order_status(order_id, status): no credential is asked for.  The
\* find_one reads only whether the order exists, and orders are never
\* deleted, so find_one and update_one are taken as one step.
UpdateOrderStatus(p) ==
    /\ Free(p)
    /\ \E order_id \in OrderIdStrings, status \in Statuses \cup {BadStatus},
          cred \in Credentials :
        LET r == [NoReq EXCEPT !.op = "update_order_status", !.cred = cred,
                               !.order_id = order_id, !.status = status]
            obj_id == ObjectId(order_id)
        IN  IF status \notin Statuses
            THEN /\ Respond(p, r, HTTP(400, "Invalid order status"))
                 /\ UNCHANGED orders_col
            ELSE IF obj_id = InvalidId
            THEN /\ Respond(p, r, HTTP(400, "Invalid order ID format"))
                 /\ UNCHANGED orders_col
            ELSE IF ~OrderExists(obj_id)
            THEN /\ Respond(p, r, HTTP(404, "Order not found"))
                 /\ UNCHANGED orders_col
            ELSE /\ orders_col' = [orders_col EXCEPT ![obj_id].status = status]
                 /\ Respond(p, r, HTTP(200, "Order status updated"))
    /\ UNCHANGED <<now, redis, users_col, carts_col, products_collection,
                   tokens, consumed, decrements>>

(* -------------------- /order/send-delivery-otp/{id} -------------------- *)
\* Variant of SendDeliveryOtp that stores the record before it looks the
\* order up, so a request for an unknown order leaves a record behind.
SendDeliveryOtp_StoresFirst(p) ==
    /\ Free(p)
    /\ \E order_id \in OrderIdStrings, cred \in Credentials, otp \in Codes :
        LET r == [NoReq EXCEPT !.op = "send_delivery_otp", !.cred = cred,
                               !.order_id = order_id]
            obj_id == ObjectId(order_id)
        IN  IF obj_id = InvalidId
            THEN /\ Respond(p, r, HTTP(400, "Invalid order ID format"))
                 /\ UNCHANGED redis
            ELSE /\ redis' = RedisSet(delivery_otp_key(order_id), hmac_hash(otp),
                                      OTP_TTL_SECONDS)
                 /\ IF ~OrderExists(obj_id)
                    THEN Respond(p, r, HTTP(404, "Order not found"))
                    ELSE /\ decrements[obj_id] < MaxDecrements
                         /\ pc' = [pc EXCEPT ![p] = "deliver_otp"]
                         /\ req' = [req EXCEPT ![p] = [NoReq EXCEPT !.op = "deliver_otp"]]
                         /\ loc' = [loc EXCEPT ![p] = NoLoc]
                         /\ last' = [Event(r, HTTP(200, "Delivery OTP sent"))
                                        EXCEPT !.issued = otp]
    /\ UNCHANGED <<now, users_col, carts_col, orders_col, products_collection,
                   tokens, consumed, decrements>>

\* send_delivery_otp(order_id): no credential is asked for.  The order's
\* user and phone are immutable once the order is inserted, so find_one and
\* redis.set are taken as one step; deliver_otp then runs in the background.
SendDeliveryOtp(p) ==
    /\ Free(p)
    /\ \E order_id \in OrderIdStrings, cred \in Credentials :
        LET r == [NoReq EXCEPT !.op = "send_delivery_otp", !.cred = cred,
                               !.order_id = order_id]
            obj_id == ObjectId(order_id)
        IN  IF obj_id = InvalidId
            THEN /\ Respond(p, r, HTTP(400, "Invalid order ID format"))
                 /\ UNCHANGED redis
            ELSE IF ~OrderExists(obj_id)
            THEN /\ Respond(p, r, HTTP(404, "Order not found"))
                 /\ UNCHANGED redis
            ELSE IF orders_col[obj_id].user = Nil
            THEN /\ Respond(p, r, HTTP(400, "User details missing for this order"))
                 /\ UNCHANGED redis
            ELSE /\ decrements[obj_id] < MaxDecrements
                 /\ \E otp \in Codes :
                    /\ redis' = RedisSet(delivery_otp_key(order_id), hmac_hash(otp),
                                         OTP_TTL_SECONDS)
                    /\ pc' = [pc EXCEPT ![p] = "deliver_otp"]
                    /\ req' = [req EXCEPT ![p] = [NoReq EXCEPT !.op = "deliver_otp"]]
                    /\ loc' = [loc EXCEPT ![p] = NoLoc]
                    /\ last' = [Event(r, HTTP(200, "Delivery OTP sent"))
                                   EXCEPT !.issued = otp,
                                          !.replaced = RedisGet(delivery_otp_key(order_id))]
    /\ UNCHANGED <<now, users_col, carts_col, orders_col, products_collection,
                   tokens, consumed, decrements>>

(* ------------------------ /order/verify-delivery ----------------------- *)
\* verify_order_delivery up to its status write: redis.get, compare, parse
\* the id, find_one.  find_one reads the order's items, which never change,
\* so it is taken together with redis.get.  No credential is asked for.
VerifyDeliveryGet(p) ==
    /\ Free(p)
    /\ \E order_id \in OrderIdStrings, otp \in Candidates, cred \in Credentials :
        LET r == [NoReq EXCEPT !.op = "verify_order_delivery", !.cred = cred,
                               !.order_id = order_id, !.otp = otp]
            stored == RedisGet(delivery_otp_key(order_id))
            obj_id == ObjectId(order_id)
        IN  IF stored = NoHash
            THEN Respond(p, r, HTTP(400, "OTP not found or expired"))
            ELSE IF ~compare_digest(hmac_hash(otp), stored)
            THEN Respond(p, r, HTTP(400, "Invalid OTP"))
            ELSE IF obj_id = InvalidId
            THEN Respond(p, r, HTTP(400, "Invalid order ID format"))
            ELSE IF ~OrderExists(obj_id)
            THEN Respond(p, r, HTTP(404, "Order not found"))
            ELSE Goto(p, "verify_delivery_update", r,
                      [stored |-> stored, items |-> orders_col[obj_id].items,
                       obj_id |-> obj_id, i |-> 1, before |-> products_collection])
    /\ UNCHANGED <<now, redis, users_col, carts_col, orders_col,
                   products_collection, tokens, consumed, decrements>>

\* orders_col().update_one({"_id": obj_id}, {"$set": {"status": "Delivered"}})
VerifyDeliveryUpdate(p) ==
    /\ pc[p] = "verify_delivery_update"
    /\ orders_col' = [orders_col EXCEPT ![loc[p].obj_id].status = "Delivered"]
    /\ Goto(p, "verify_delivery_delete", req[p], loc[p])
    /\ UNCHANGED <<now, redis, users_col, carts_col, products_collection,
                   tokens, consumed, decrements>>

\* Variant of VerifyDeliveryDelete that leaves the delivery record stored.
VerifyDeliveryDelete_Skipped(p) ==
    /\ pc[p] = "verify_delivery_delete"
    /\ Goto(p, "verify_delivery_dec", req[p], loc[p])
    /\ UNCHANGED <<now, redis, users_col, carts_col, orders_col,
                   products_collection, tokens, consumed, decrements>>

\* redis.delete(delivery_otp_key(req.order_id))
VerifyDeliveryDelete(p) ==
    /\ pc[p] = "verify_delivery_delete"
    /\ redis' = RedisDelete(delivery_otp_key(req[p].order_id))
    /\ Goto(p, "verify_delivery_dec", req[p], loc[p])
    /\ UNCHANGED <<now, users_col, carts_col, orders_col, products_collection,
                   tokens, consumed, decrements>>

\* Variant of VerifyDeliveryDec that lowers the stock by one unit per line
\* item, whatever the ordered quantity.
VerifyDeliveryDec_ByOne(p) ==
    /\ pc[p] = "verify_delivery_dec"
    /\ LET item == loc[p].items[loc[p].i]
       IN  /\ products_collection' =
                 [products_collection EXCEPT ![item.id] = @ - 1]
           /\ decrements' = [decrements EXCEPT ![loc[p].obj_id] = @ + 1]
           /\ IF loc[p].i < Len(loc[p].items)
              THEN Goto(p, "verify_delivery_dec", req[p], [loc[p] EXCEPT !.i = @ + 1])
              ELSE Respond(p, req[p], HTTP(200, "Order delivery verified and stock updated"))
    /\ UNCHANGED <<now, redis, users_col, carts_col, orders_col, tokens, consumed>>

\* One pass of the loop over order["items"]:
\* products_collection.update_one({"id": item["id"]}, {"$inc": {"quantity": -qty}});
\* after the last item the handler responds.
VerifyDeliveryDec(p) ==
    /\ pc[p] = "verify_delivery_dec"
    /\ LET item == loc[p].items[loc[p].i]
       IN  /\ products_collection' =
                 [products_collection EXCEPT ![item.id] = @ - item.qty]
           /\ decrements' = [decrements EXCEPT ![loc[p].obj_id] = @ + 1]
           /\ IF loc[p].i < Len(loc[p].items)
              THEN Goto(p, "verify_delivery_dec", req[p], [loc[p] EXCEPT !.i = @ + 1])
              ELSE Respond(p, req[p], HTTP(200, "Order delivery verified and stock updated"))
    /\ UNCHANGED <<now, redis, users_col, carts_col, orders_col, tokens, consumed>>

\* A database in which orders were placed earlier: the owner has a users
\* document, the cart was cleared, and every order is still "Order Placed".
\* (orders of two lines and orders of one line alternate)
OrderLines(o) ==
    IF o % 2 = 1 THEN <<Item("1", 1), Item("2", MaxQty)>> ELSE <<Item("1", MaxQty)>>
\* The orders placed before the run starts: all but the last ObjectId, which
\* stays a well-formed id that resolves to no order.
PlacedEarlier == 1..(MaxOrders - 1)
InitDelivery ==
    /\ now = 0
    /\ redis = [k \in RedisKeys |-> NoRecord]
    /\ users_col = {"+14155552671"}
    /\ carts_col = [ph \in Identities |-> <<>>]
    /\ orders_col = [o \in PlacedEarlier |-> Order("+14155552671", OrderLines(o))]
    /\ products_collection = [pr \in Products |-> InitStock]
    /\ tokens = [ph \in Identities |-> 0]
    /\ pc = [p \in Procs |-> "idle"]
    /\ req = [p \in Procs |-> NoReq]
    /\ loc = [p \in Procs |-> NoLoc]
    /\ last = NoEvent
    /\ consumed = [ph \in Identities |-> FALSE]
    /\ decrements = [o \in ObjectIds |-> 0]

(* -------------------------------- clock -------------------------------- *)
\* Variant of Tick in which redis never drops a key.
Tick_KeepsRecords ==
    /\ now < MaxTime
    /\ now' = now + 1
    /\ last' = NoEvent
    /\ UNCHANGED <<redis, users_col, carts_col, orders_col, products_collection,
                   tokens, pc, req, loc, consumed, decrements>>

\* One second passes; redis drops the keys whose expiry time is reached.
Tick ==
    /\ now < MaxTime
    /\ now' = now + 1
    /\ redis' = [k \in RedisKeys |->
                    IF redis[k] # NoRecord /\ redis[k].expires_at <= now + 1
                    THEN NoRecord ELSE redis[k]]
    /\ last' = NoEvent
    /\ UNCHANGED <<users_col, carts_col, orders_col, products_collection,
                   tokens, pc, req, loc, consumed, decrements>>

\* The database of InitDelivery right after /send-otp for one phone and
\* /order/send-delivery-otp for every order have stored their records.
InitVerify ==
    /\ now = 0
    /\ \E c \in Codes, d \in [PlacedEarlier \X {"hex"} -> Codes] :
        redis = [k \in RedisKeys |->
                    IF k = otp_key("+14155552671")
                    THEN [hash |-> hmac_hash(c), expires_at |-> OTP_TTL_SECONDS]
                    ELSE IF \E s \in PlacedEarlier \X {"hex"} : k = delivery_otp_key(s)
                    THEN [hash |-> hmac_hash(d[k[2]]), expires_at |-> OTP_TTL_SECONDS]
                    ELSE NoRecord]
    /\ users_col = {"+14155552671"}
    /\ carts_col = [ph \in Identities |-> <<>>]
    /\ orders_col = [o \in PlacedEarlier |-> Order("+14155552671", OrderLines(o))]
    /\ products_collection = [pr \in Products |-> InitStock]
    /\ tokens = [ph \in Identities |-> 0]
    /\ pc = [p \in Procs |-> "idle"]
    /\ req = [p \in Procs |-> NoReq]
    /\ loc = [p \in Procs |-> NoLoc]
    /\ last = NoEvent
    /\ consumed = [ph \in Identities |-> FALSE]
    /\ decrements = [o \in ObjectIds |-> 0]

(* --------------------------- specifications ---------------------------- *)
NextLogin ==
    \/ \E p \in Procs : SendOtp(p)
    \/ \E p \in Procs : DeliverOtp(p)
    \/ \E p \in Procs : VerifyOtpGet(p)
    \/ \E p \in Procs : VerifyOtpDelete(p)
    \/ Tick

\* The login workflow, concurrent requests, on an empty database.
SpecLogin == Init /\ [][NextLogin]_vars

NextDelivery ==
    \/ \E p \in Procs : UpdateOrderStatus(p)
    \/ \E p \in Procs : SendDeliveryOtp(p)
    \/ \E p \in Procs : DeliverOtp(p)
    \/ \E p \in Procs : VerifyDeliveryGet(p)
    \/ \E p \in Procs : VerifyDeliveryUpdate(p)
    \/ \E p \in Procs : VerifyDeliveryDelete(p)
    \/ \E p \in Procs : VerifyDeliveryDec(p)
    \/ Tick

\* The delivery workflow, concurrent requests, on a database that already
\* holds placed orders.
SpecDelivery == InitDelivery /\ [][NextDelivery]_vars

NextDeliverySeq ==
    \/ UpdateOrderStatus(1)
    \/ SendDeliveryOtp(1)
    \/ DeliverOtp(1)
    \/ VerifyDeliveryGet(1)
    \/ VerifyDeliveryUpdate(1)
    \/ VerifyDeliveryDelete(1)
    \/ VerifyDeliveryDec(1)
    \/ Tick

\* The delivery workflow with one request served at a time (each handler,
\* background task included, runs to its end before the next request).
SpecDeliverySeq == InitDelivery /\ [][NextDeliverySeq]_vars

NextVerify ==
    \/ \E p \in Procs : VerifyOtpGet(p)
    \/ \E p \in Procs : VerifyOtpDelete(p)
    \/ VerifyDeliveryGet(1)
    \/ VerifyDeliveryUpdate(1)
    \/ VerifyDeliveryDelete(1)
    \/ VerifyDeliveryDec(1)
    \/ Tick

\* Both verification handlers against the records that /send-otp and
\* /order/send-delivery-otp have just stored: /verify-otp requests overlap,
\* /order/verify-delivery requests come one at a time.
SpecVerify == InitVerify /\ [][NextVerify]_vars

(* ---------------------------- /user/details ---------------------------- *)
\* Credentials a client can put in the Authorization header.
Presentable == Credentials \cup ForgedTokens

\* save_user_details: one await, the upsert of the caller's users document.
SaveUserDetails(p) ==
    /\ Free(p)
    /\ \E cred \in Presentable :
        \E a \in get_current_user(cred, now) :
            LET r == [NoReq EXCEPT !.op = "save_user_details", !.cred = cred]
            IN  IF ~a.ok
                THEN /\ Respond(p, r, HTTP(a.code, a.detail))
                     /\ UNCHANGED users_col
                ELSE /\ users_col' = users_col \cup {a.sub}
                     /\ Respond(p, r, HTTP(200, a.sub))
    /\ UNCHANGED <<now, redis, carts_col, orders_col, products_collection,
                   tokens, consumed, decrements>>

\* get_user_details: one await, find_one on the caller's users document;
\* the answer is that document, or {} when there is none.
GetUserDetails(p) ==
    /\ Free(p)
    /\ \E cred \in Presentable :
        \E a \in get_current_user(cred, now) :
            LET r == [NoReq EXCEPT !.op = "get_user_details", !.cred = cred]
            IN  IF ~a.ok
                THEN Respond(p, r, HTTP(a.code, a.detail))
                ELSE Respond(p, r, HTTP(200, IF a.sub \in users_col THEN a.sub ELSE "{}"))
    /\ UNCHANGED <<now, redis, users_col, carts_col, orders_col,
                   products_collection, tokens, consumed, decrements>>

\* Two clients hold a credential: one was minted as the run starts, the
\* other two seconds earlier.
InitAuth ==
    /\ now = 0
    /\ redis = [k \in RedisKeys |-> NoRecord]
    /\ users_col = {}
    /\ carts_col = [ph \in Identities |-> <<>>]
    /\ orders_col = <<>>
    /\ products_collection = [pr \in Products |-> InitStock]
    /\ tokens = [ph \in Identities |->
                    IF ph = "+14155552671"
                    THEN create_access_token(ph, 0).exp
                    ELSE create_access_token(ph, 0 - 2).exp]
    /\ pc = [p \in Procs |-> "idle"]
    /\ req = [p \in Procs |-> NoReq]
    /\ loc = [p \in Procs |-> NoLoc]
    /\ last = NoEvent
    /\ consumed = [ph \in Identities |-> FALSE]
    /\ decrements = [o \in ObjectIds |-> 0]

NextAuth ==
    \/ SendOtp(1)
    \/ DeliverOtp(1)
    \/ VerifyOtpGet(1)
    \/ VerifyOtpDelete(1)
    \/ \E p \in Procs : SaveUserDetails(p)
    \/ \E p \in Procs : GetUserDetails(p)
    \/ Tick

\* The bearer dependency in front of the /user/details handlers, with the
\* login workflow (one login request at a time) minting further credentials.
SpecAuth == InitAuth /\ [][NextAuth]_vars

(* ----------------------------- /order/place ----------------------------- *)
\* place_order up to its second await: the bearer dependency, then
\* find_one on the caller's cart.
PlaceOrderFindCart(p) ==
    /\ Free(p)
    /\ \E cred \in Presentable :
        \E a \in get_current_user(cred, now) :
            LET r == [NoReq EXCEPT !.op = "place_order", !.cred = cred]
            IN  IF ~a.ok
                THEN Respond(p, r, HTTP(a.code, a.detail))
                ELSE IF carts_col[a.sub] = <<>>
                THEN Respond(p, r, HTTP(400, "Cart is empty"))
                ELSE Goto(p, "place_order_find_user", r,
                          [NoLoc EXCEPT !.items = carts_col[a.sub]])
    /\ UNCHANGED <<now, redis, users_col, carts_col, orders_col,
                   products_collection, tokens, consumed, decrements>>

\* find_one on the caller's users document
PlaceOrderFindUser(p) ==
    /\ pc[p] = "place_order_find_user"
    /\ IF req[p].cred.sub \notin users_col
       THEN Respond(p, req[p], HTTP(400, "User details missing"))
       ELSE Goto(p, "place_order_insert", req[p], loc[p])
    /\ UNCHANGED <<now, redis, users_col, carts_col, orders_col,
                   products_collection, tokens, consumed, decrements>>

\* The loop over the items of the cart as it was read, and insert_one.
\* The loop reads name and price of each product, which never change, and
\* every product a cart line names exists, so it is taken with the insert.
PlaceOrderInsert(p) ==
    /\ pc[p] = "place_order_insert"
    /\ Len(orders_col) < MaxOrders
    /\ orders_col' = Append(orders_col, Order(req[p].cred.sub, loc[p].items))
    /\ Goto(p, "place_order_delete", req[p],
            [loc[p] EXCEPT !.obj_id = Len(orders_col) + 1])
    /\ UNCHANGED <<now, redis, users_col, carts_col, products_collection,
                   tokens, consumed, decrements>>

\* carts_col().delete_one({"phone": user_phone}), then the response
PlaceOrderDelete(p) ==
    /\ pc[p] = "place_order_delete"
    /\ carts_col' = [carts_col EXCEPT ![req[p].cred.sub] = <<>>]
    /\ Respond(p, req[p], HTTP(200, "Order placed successfully"))
    /\ UNCHANGED <<now, redis, users_col, orders_col, products_collection,
                   tokens, consumed, decrements>>

\* Two clients are logged in and have filled their carts with /cart/add;
\* one of them has saved its user details.
InitPlace ==
    /\ now = 0
    /\ redis = [k \in RedisKeys |-> NoRecord]
    /\ users_col = {"+14155552671"}
    /\ carts_col = [ph \in Identities |->
                       IF ph = "+14155552671"
                       THEN <<Item("1", 1), Item("2", MaxQty)>>
                       ELSE <<Item("1", MaxQty)>>]
    /\ orders_col = <<>>
    /\ products_collection = [pr \in Products |-> InitStock]
    /\ tokens = [ph \in Identities |-> create_access_token(ph, 0).exp]
    /\ pc = [p \in Procs |-> "idle"]
    /\ req = [p \in Procs |-> NoReq]
    /\ loc = [p \in Procs |-> NoLoc]
    /\ last = NoEvent
    /\ consumed = [ph \in Identities |-> FALSE]
    /\ decrements = [o \in ObjectIds |-> 0]

NextPlace ==
    \/ \E p \in Procs : SaveUserDetails(p)
    \/ \E p \in Procs : PlaceOrderFindCart(p)
    \/ \E p \in Procs : PlaceOrderFindUser(p)
    \/ \E p \in Procs : PlaceOrderInsert(p)
    \/ \E p \in Procs : PlaceOrderDelete(p)

\* Overlapping /order/place requests on carts that no /cart/add touches
\* again, within the lifetime of the credentials (the clock stands still).
SpecPlace == InitPlace /\ [][NextPlace]_vars

(* ------------------------------ /cart/add ------------------------------ *)
\* a product id the catalog does not hold
UnknownProduct == "3"

\* The loop of add_to_cart over cart["items"]: the first line with the
\* product's id has the quantity added to it; if there is none, a line is
\* appended.
AddItem(items, id, qty) ==
    IF \E k \in 1..Len(items) : items[k].id = id
    THEN LET k == CHOOSE k \in 1..Len(items) :
                      /\ items[k].id = id
                      /\ \A j \in 1..(k - 1) : items[j].id # id
         IN  [items EXCEPT ![k].qty = @ + qty]
    ELSE Append(items, Item(id, qty))

\* add_to_cart up to its update_one: the bearer dependency, find_one on the
\* product (products are never removed, so it is taken with the next await),
\* the quantity check, find_one on the caller's cart, and the change to the
\* cart as read.  The stock of the product is not looked at.  A cart line
\* holds at most MaxQty units here.
AddToCartFind(p) ==
    /\ Free(p)
    /\ \E cred \in Presentable :
        \E a \in get_current_user(cred, now) :
            IF ~a.ok
            THEN \* the dependency raises before the handler sees the body
                 Respond(p, [NoReq EXCEPT !.op = "add_to_cart", !.cred = cred],
                         HTTP(a.code, a.detail))
            ELSE \E product_id \in Products \cup {UnknownProduct},
                    quantity \in 0..MaxQty :
                    LET r == [NoReq EXCEPT !.op = "add_to_cart", !.cred = cred,
                                           !.product_id = product_id,
                                           !.quantity = quantity]
                        cart == AddItem(carts_col[a.sub], product_id, quantity)
                    IN  IF product_id \notin Products
                        THEN Respond(p, r, HTTP(404, "Product not found"))
                        ELSE IF quantity <= 0
                        THEN Respond(p, r, HTTP(400, "Quantity must be positive"))
                        ELSE /\ \A k \in 1..Len(cart) : cart[k].qty <= MaxQty
                             /\ Goto(p, "add_to_cart_update", r,
                                     [NoLoc EXCEPT !.items = cart])
    /\ UNCHANGED <<now, redis, users_col, carts_col, orders_col,
                   products_collection, tokens, consumed, decrements>>

\* carts_col().update_one({"phone": user_phone}, {"$set": cart}, upsert=True),
\* then the response
AddToCartUpdate(p) ==
    /\ pc[p] = "add_to_cart_update"
    /\ carts_col' = [carts_col EXCEPT ![req[p].cred.sub] = loc[p].items]
    /\ Respond(p, req[p], HTTP(200, "Added to cart"))
    /\ UNCHANGED <<now, redis, users_col, orders_col, products_collection,
                   tokens, consumed, decrements>>

\* One client is logged in and has saved its user details; it placed
\* orders earlier, none of which was delivered yet, so the catalog still
\* holds InitStock units of every product.  The carts are empty.
InitShop ==
    /\ now = 0
    /\ redis = [k \in RedisKeys |-> NoRecord]
    /\ users_col = {"+14155552671"}
    /\ carts_col = [ph \in Identities |-> <<>>]
    /\ orders_col = [o \in PlacedEarlier |-> Order("+14155552671", OrderLines(o))]
    /\ products_collection = [pr \in Products |-> InitStock]
    /\ tokens = [ph \in Identities |->
                    IF ph = "+14155552671"
                    THEN create_access_token(ph, 0).exp ELSE 0]
    /\ pc = [p \in Procs |-> "idle"]
    /\ req = [p \in Procs |-> NoReq]
    /\ loc = [p \in Procs |-> NoLoc]
    /\ last = NoEvent
    /\ consumed = [ph \in Identities |-> FALSE]
    /\ decrements = [o \in ObjectIds |-> 0]

\* From cart to delivery, one request at a time, within the lifetime of the
\* credentials and of the delivery codes (the clock stands still).
NextShop ==
    \/ AddToCartFind(1)
    \/ AddToCartUpdate(1)
    \/ PlaceOrderFindCart(1)
    \/ PlaceOrderFindUser(1)
    \/ PlaceOrderInsert(1)
    \/ PlaceOrderDelete(1)
    \/ SendDeliveryOtp(1)
    \/ DeliverOtp(1)
    \/ VerifyDeliveryGet(1)
    \/ VerifyDeliveryUpdate(1)
    \/ VerifyDeliveryDelete(1)
    \/ VerifyDeliveryDec(1)

SpecShop == InitShop /\ [][NextShop]_vars

\* A database in which every order the collection may hold was placed
\* earlier, and no code has been issued yet.
InitKeys ==
    /\ now = 0
    /\ redis = [k \in RedisKeys |-> NoRecord]
    /\ users_col = {"+14155552671"}
    /\ carts_col = [ph \in Identities |-> <<>>]
    /\ orders_col = [o \in 1..MaxOrders |-> Order("+14155552671", OrderLines(o))]
    /\ products_collection = [pr \in Products |-> InitStock]
    /\ tokens = [ph \in Identities |-> 0]
    /\ pc = [p \in Procs |-> "idle"]
    /\ req = [p \in Procs |-> NoReq]
    /\ loc = [p \in Procs |-> NoLoc]
    /\ last = NoEvent
    /\ consumed = [ph \in Identities |-> FALSE]
    /\ decrements = [o \in ObjectIds |-> 0]

NextKeys ==
    \/ SendOtp(1)
    \/ SendDeliveryOtp(1)
    \/ DeliverOtp(1)
    \/ VerifyOtpGet(1)
    \/ VerifyOtpDelete(1)
    \/ VerifyDeliveryGet(1)
    \/ VerifyDeliveryUpdate(1)
    \/ VerifyDeliveryDelete(1)
    \/ VerifyDeliveryDec(1)

\* The login workflow and the delivery workflow over one redis, one request
\* at a time, within the lifetime of the codes (the clock stands still).
SpecKeys == InitKeys /\ [][NextKeys]_vars

(* ======================================================================= *)
(*                               Properties                                *)
(* ======================================================================= *)
\* A live record under `key` holds the hash of `otp`.
Stored(key, otp) ==
    /\ redis[key] # NoRecord
    /\ now < redis[key].expires_at
    /\ redis[key].hash = hmac_hash(otp)
\* A live record under `key` holds the hash of some other code.
StoredOther(key, otp) ==
    /\ redis[key] # NoRecord
    /\ now < redis[key].expires_at
    /\ redis[key].hash # hmac_hash(otp)

NotFoundOrExpired == HTTP(400, "OTP not found or expired")
Mismatch == HTTP(400, "Invalid OTP")
Bearer == HTTP(200, "bearer")

\* This step is the redis.get of a /verify-otp request for identity ph with
\* code otp: the request either fails there or goes on to redis.delete.
VerifyOtpArrives(ph, otp) ==
    \/ \E p \in Procs :
        /\ pc[p] = "idle" /\ pc'[p] = "verify_otp_delete"
        /\ normalize_phone_e164(req'[p].phone_number) = ph /\ req'[p].otp = otp
    \/ /\ last'.req.op = "verify_otp" /\ last'.resp.code # 200
       /\ normalize_phone_e164(last'.req.phone_number) = ph /\ last'.req.otp = otp
\* This step is the check of slot p's /verify-otp request, and it passes.
VerifyOtpPasses(p) == pc[p] = "idle" /\ pc'[p] = "verify_otp_delete"
\* This step is the end of slot p's /verify-otp request.
VerifyOtpReturns(p) == pc[p] = "verify_otp_delete" /\ pc'[p] = "idle"

\* This step is the redis.get of a /order/verify-delivery request.
VerifyDeliveryArrives(order_id, otp) ==
    \/ \E p \in Procs :
        /\ pc[p] = "idle" /\ pc'[p] = "verify_delivery_update"
        /\ req'[p].order_id = order_id /\ req'[p].otp = otp
    \/ /\ last'.req.op = "verify_order_delivery" /\ last'.resp.code # 200
       /\ last'.req.order_id = order_id /\ last'.req.otp = otp
\* This step is the end of slot p's successful /order/verify-delivery.
VerifyDeliveryReturns(p) == pc[p] = "verify_delivery_dec" /\ pc'[p] = "idle"

\* C1: a /verify-otp that arrives while the issued code is stored passes the
\* check, and when it returns it returns a bearer token and the record is
\* gone; a /verify-otp for an identity whose code was already accepted (no
\* /send-otp since) fails with "OTP not found or expired".
C1_AcceptedOnce ==
    [][\A ph \in Identities, otp \in Candidates :
        /\ (VerifyOtpArrives(ph, otp) /\ Stored(otp_key(ph), otp))
              => \E p \in Procs : VerifyOtpPasses(p)
        /\ \A p \in Procs :
              (VerifyOtpReturns(p) /\ normalize_phone_e164(req[p].phone_number) = ph)
                 => /\ last' = Event(req[p], Bearer)
                    /\ redis'[otp_key(ph)] = NoRecord
        /\ (VerifyOtpArrives(ph, otp) /\ consumed[ph])
              => last'.resp = NotFoundOrExpired
      ]_vars

\* C1 witness: a second /verify-otp has just been refused after a first one
\* was accepted.
C1_Witness ==
    /\ last.req.op = "verify_otp"
    /\ last.resp = NotFoundOrExpired
    /\ normalize_phone_e164(last.req.phone_number) \in Identities
    /\ consumed[normalize_phone_e164(last.req.phone_number)]

\* C2: of the /verify-otp requests that carry the issued code, at most one
\* succeeds per issuance: a request returns a token only if no other did
\* since the latest /send-otp for that identity.
C2_ExactlyOneSucceeds ==
    [][\A p \in Procs :
        VerifyOtpReturns(p) => ~consumed[normalize_phone_e164(req[p].phone_number)]
      ]_vars

\* C3: the line items of an order are decremented at most once.
C3_DecrementAtMostOnce ==
    \A o \in 1..Len(orders_col) : decrements[o] <= Len(orders_col[o].items)

\* C4: a credential for subject ph is minted only at the end of a
\* /verify-otp for ph that found, under otp:ph, a live record holding the
\* hash of the submitted code; a /verify-otp that fails mints none.
C4_MintOnlyAfterVerify ==
    [][/\ \A p \in Procs :
            VerifyOtpPasses(p) =>
                /\ normalize_phone_e164(req'[p].phone_number) \in Identities
                /\ Stored(otp_key(normalize_phone_e164(req'[p].phone_number)), req'[p].otp)
                /\ loc'[p].stored = hmac_hash(req'[p].otp)
       /\ \A ph \in Identities :
            (tokens'[ph] # tokens[ph] \/ (last'.resp = Bearer /\
                    normalize_phone_e164(last'.req.phone_number) = ph)) =>
                \E p \in Procs :
                    /\ VerifyOtpReturns(p)
                    /\ normalize_phone_e164(req[p].phone_number) = ph
                    /\ loc[p].stored = hmac_hash(req[p].otp)
                    /\ tokens'[ph] = create_access_token(ph, now).exp
       /\ (last'.req.op = "verify_otp" /\ last'.resp.code # 200) => tokens' = tokens
      ]_vars

\* C4 witness: a credential was just returned for a verified identity.
C4_Witness ==
    /\ last.resp = Bearer
    /\ tokens[normalize_phone_e164(last.req.phone_number)] = now + ACCESS_TOKEN_EXPIRE_SECONDS

\* C5: a verify whose code differs from the stored one fails with
\* "Invalid OTP" and changes nothing: the record stays as it was, and a
\* verify that arrives with the stored code while the record is live still
\* passes the check.
C5_MismatchKeepsRecord ==
    [][\A otp \in Candidates :
        /\ \A ph \in Identities :
            /\ (VerifyOtpArrives(ph, otp) /\ StoredOther(otp_key(ph), otp)) =>
                    /\ last'.resp = Mismatch
                    /\ UNCHANGED <<redis, tokens>>
            /\ (VerifyOtpArrives(ph, otp) /\ Stored(otp_key(ph), otp)) =>
                    \E p \in Procs : VerifyOtpPasses(p)
        /\ \A order_id \in OrderIdStrings :
            /\ (VerifyDeliveryArrives(order_id, otp)
                    /\ StoredOther(delivery_otp_key(order_id), otp)) =>
                    /\ last'.resp = Mismatch
                    /\ UNCHANGED <<redis, orders_col, products_collection>>
            /\ (VerifyDeliveryArrives(order_id, otp)
                    /\ Stored(delivery_otp_key(order_id), otp)) =>
                    \E p \in Procs : pc'[p] = "verify_delivery_update"
      ]_vars

\* C5 witness: a login code was just refused as invalid and the record it
\* was compared with is still stored and live.
C5_Witness ==
    /\ last.req.op = "verify_otp"
    /\ last.resp = Mismatch
    /\ normalize_phone_e164(last.req.phone_number) \in Identities
    /\ StoredOther(otp_key(normalize_phone_e164(last.req.phone_number)), last.req.otp)

\* C6: an order becomes Delivered only by the status write of a
\* /order/verify-delivery that passed the OTP check for that order.
C6_DeliveredOnlyByVerification ==
    [][\A o \in 1..Len(orders_col) :
        (orders_col'[o].status = "Delivered" /\ orders_col[o].status # "Delivered")
            => \E p \in Procs :
                /\ pc[p] = "verify_delivery_update" /\ pc'[p] = "verify_delivery_delete"
                /\ loc[p].obj_id = o
      ]_vars

\* The operations the bearer credential is required on.
ProtectedOps ==
    {"add_to_cart", "get_cart", "save_user_details", "get_user_details",
     "place_order", "get_orders",
     "update_order_status", "send_delivery_otp", "verify_order_delivery"}

\* C7: a request to a cart, user or order operation that carries no valid
\* credential is answered 401, never enters its handler, and leaves the
\* key-value store and the document store unchanged.
C7_FailsClosed ==
    [][/\ (last'.req.op \in ProtectedOps
            /\ \A a \in get_current_user(last'.req.cred, now) : ~a.ok)
            => /\ last'.resp.code = 401
               /\ UNCHANGED <<redis, users_col, carts_col, orders_col,
                              products_collection>>
       /\ \A p \in Procs :
            (pc[p] = "idle" /\ pc'[p] # "idle" /\ req'[p].op \in ProtectedOps)
                => \E a \in get_current_user(req'[p].cred, now) : a.ok
      ]_vars

\* C8: marking the order Delivered and decrementing the stock of its line
\* items is one unit: no state shows an order set to Delivered by a
\* verification whose decrements are not all applied.
C8_DeliveredAndDecrementedTogether ==
    \A p \in Procs :
        (pc[p] \in {"verify_delivery_delete", "verify_delivery_dec"}
            /\ orders_col[loc[p].obj_id].status = "Delivered")
          => loc[p].i > Len(loc[p].items)

\* ordered quantity of product pr among `items`
RECURSIVE OrderedQty(_, _)
OrderedQty(items, pr) ==
    IF items = <<>> THEN 0
    ELSE (IF Head(items).id = pr THEN Head(items).qty ELSE 0)
            + OrderedQty(Tail(items), pr)

\* C9: with one request at a time, a /order/verify-delivery that succeeds
\* leaves the order Delivered, its record deleted and the catalog lowered by
\* the ordered quantities exactly once; the same request repeated right
\* after it fails with "OTP not found or expired" and changes nothing.
C9_SecondVerifyDeliveryFails ==
    [][/\ \A p \in Procs :
            VerifyDeliveryReturns(p) =>
                /\ last'.resp.code = 200
                /\ orders_col'[loc[p].obj_id].status = "Delivered"
                /\ redis'[delivery_otp_key(req[p].order_id)] = NoRecord
                /\ products_collection' =
                      [pr \in Products |->
                          loc[p].before[pr] - OrderedQty(loc[p].items, pr)]
       /\ (/\ last.req.op = "verify_order_delivery" /\ last.resp.code = 200
           /\ VerifyDeliveryArrives(last.req.order_id, last.req.otp))
            => /\ last'.resp = NotFoundOrExpired
               /\ UNCHANGED <<orders_col, products_collection, redis>>
      ]_vars

\* C9 witness: the repeated request was just refused; the order is
\* Delivered and its line items were decremented once.
C9_Witness ==
    /\ last.req.op = "verify_order_delivery"
    /\ last.resp = NotFoundOrExpired
    /\ ObjectId(last.req.order_id) \in 1..Len(orders_col)
    /\ orders_col[ObjectId(last.req.order_id)].status = "Delivered"
    /\ decrements[ObjectId(last.req.order_id)]
          = Len(orders_col[ObjectId(last.req.order_id)].items)

\* C10: when a /order/verify-delivery succeeds (one request at a time), the
\* order is Delivered and every line item's product holds what it held when
\* the request arrived minus the ordered quantity.
C10_StockLoweredByOrderedQty ==
    [][\A p \in Procs :
        VerifyDeliveryReturns(p) =>
            /\ orders_col'[loc[p].obj_id].status = "Delivered"
            /\ \A j \in 1..Len(loc[p].items) :
                products_collection'[loc[p].items[j].id]
                    = loc[p].before[loc[p].items[j].id] - loc[p].items[j].qty
      ]_vars

\* C10 witness: a two-line order was just delivered.
C10_Witness ==
    /\ last.req.op = "verify_order_delivery"
    /\ last.resp.code = 200
    /\ Len(orders_col[ObjectId(last.req.order_id)].items) = 2
    /\ products_collection["2"] = InitStock - MaxQty

\* C11: no record outlives its TTL, and a verify that finds no record under
\* its key fails with "OTP not found or expired" whatever code it carries;
\* the records of this specification were all issued at time 0, so from
\* time OTP_TTL_SECONDS on the store is empty and every verify fails that
\* way, for keys that held a record and for keys that never did.
C11_ExpiredIsAbsent ==
    [][/\ \A k \in RedisKeys :
            redis'[k] # NoRecord =>
                /\ now' < redis'[k].expires_at
                /\ redis'[k].expires_at <= now' + OTP_TTL_SECONDS
       /\ now' >= OTP_TTL_SECONDS => \A k \in RedisKeys : redis'[k] = NoRecord
       /\ \A otp \in Candidates :
            /\ \A ph \in Identities :
                (VerifyOtpArrives(ph, otp)
                    /\ (now >= OTP_TTL_SECONDS \/ redis[otp_key(ph)] = NoRecord))
                  => last'.resp = NotFoundOrExpired
            /\ \A order_id \in OrderIdStrings :
                (VerifyDeliveryArrives(order_id, otp)
                    /\ (now >= OTP_TTL_SECONDS
                            \/ redis[delivery_otp_key(order_id)] = NoRecord))
                  => last'.resp = NotFoundOrExpired
      ]_vars

\* C11 witness: the login record stored at time 0 was never accepted, its
\* TTL has elapsed, and a /verify-otp for its identity was just refused.
C11_Witness ==
    /\ now >= OTP_TTL_SECONDS
    /\ last.req.op = "verify_otp"
    /\ normalize_phone_e164(last.req.phone_number) = "+14155552671"
    /\ ~consumed["+14155552671"]
    /\ last.resp = NotFoundOrExpired

\* C12: redis holds one record per key, and an issuance puts its own record
\* there whatever was stored before: right after /send-otp or
\* /order/send-delivery-otp the key holds the hash of the code just
\* generated with a full TTL and no other key has changed; a verify is
\* never refused with the stored code, and is refused with "Invalid OTP"
\* with any other code, an earlier one included.
C12_NewIssuanceReplaces ==
    [][/\ \A ph \in Identities :
            (/\ last'.req.op = "send_otp" /\ last'.resp.code = 200
             /\ normalize_phone_e164(last'.req.phone_number) = ph)
              => /\ redis'[otp_key(ph)] =
                        [hash |-> hmac_hash(last'.issued),
                         expires_at |-> now + OTP_TTL_SECONDS]
                 /\ \A k \in RedisKeys \ {otp_key(ph)} : redis'[k] = redis[k]
       /\ \A order_id \in OrderIdStrings :
            (/\ last'.req.op = "send_delivery_otp" /\ last'.resp.code = 200
             /\ last'.req.order_id = order_id)
              => /\ redis'[delivery_otp_key(order_id)] =
                        [hash |-> hmac_hash(last'.issued),
                         expires_at |-> now + OTP_TTL_SECONDS]
                 /\ \A k \in RedisKeys \ {delivery_otp_key(order_id)} :
                        redis'[k] = redis[k]
       /\ (/\ last'.req.op = "verify_otp" /\ last'.resp.code # 200
           /\ normalize_phone_e164(last'.req.phone_number) \in Identities)
            => LET key == otp_key(normalize_phone_e164(last'.req.phone_number))
               IN  /\ ~Stored(key, last'.req.otp)
                   /\ StoredOther(key, last'.req.otp) => last'.resp = Mismatch
       /\ (last'.req.op = "verify_order_delivery" /\ last'.resp.code # 200)
            => LET key == delivery_otp_key(last'.req.order_id)
               IN  /\ ~Stored(key, last'.req.otp)
                   /\ StoredOther(key, last'.req.otp) => last'.resp = Mismatch
      ]_vars

\* C12 witness: a /send-otp has just overwritten the live record of an
\* earlier, different code; the key holds the new code only.
C12_Witness ==
    /\ last.req.op = "send_otp"
    /\ last.replaced # NoHash
    /\ last.replaced # hmac_hash(last.issued)
    /\ Stored(otp_key(normalize_phone_e164(last.req.phone_number)), last.issued)

\* C13: a /order/verify-delivery whose order id is well formed but resolves
\* to no order is answered 404 "Order not found" and changes no order, no
\* stock and no record.
C13_UnknownOrderIs404 ==
    [][(/\ last'.req.op = "verify_order_delivery"
        /\ ObjectId(last'.req.order_id) # InvalidId
        /\ ~OrderExists(ObjectId(last'.req.order_id)))
          => /\ last'.resp = HTTP(404, "Order not found")
             /\ UNCHANGED <<orders_col, products_collection, redis>>
      ]_vars

\* C14: /order/send-delivery-otp fails with 400 on a malformed id and with
\* 404 on an id that resolves to no order, and a failing request changes no
\* record and queues no delivery; a record appears under delivery_otp:<id>
\* only by a successful request for an existing order with an owner, which
\* also queues the delivery.
C14_IssuesOnlyForOwnedOrder ==
    [][/\ (last'.req.op = "send_delivery_otp" /\ last'.resp.code # 200)
            => /\ UNCHANGED redis
               /\ \A p \in Procs : pc'[p] = "deliver_otp" => pc[p] = "deliver_otp"
               /\ IF ObjectId(last'.req.order_id) = InvalidId
                  THEN last'.resp = HTTP(400, "Invalid order ID format")
                  ELSE /\ ~OrderExists(ObjectId(last'.req.order_id))
                       /\ last'.resp = HTTP(404, "Order not found")
       /\ \A order_id \in OrderIdStrings :
            (/\ redis'[delivery_otp_key(order_id)] # redis[delivery_otp_key(order_id)]
             /\ redis'[delivery_otp_key(order_id)] # NoRecord)
              => /\ OrderExists(ObjectId(order_id))
                 /\ orders_col[ObjectId(order_id)].user \in Identities
                 /\ last'.req.op = "send_delivery_otp"
                 /\ last'.req.order_id = order_id
                 /\ last'.resp.code = 200
                 /\ \E p \in Procs : pc[p] = "idle" /\ pc'[p] = "deliver_otp"
      ]_vars

\* C14 witness: a request for an id that resolves to no order was just
\* answered 404 and no record is stored under that id.
C14_Witness ==
    /\ last.req.op = "send_delivery_otp"
    /\ last.resp = HTTP(404, "Order not found")
    /\ redis[delivery_otp_key(last.req.order_id)] = NoRecord

\* C15 (as stated): a signed token yields its subject at every time up to
\* and including its expiry and "Token expired" after it; any other token
\* is "Invalid token".
C15_ValidThroughExpiry ==
    [][(last'.req.op \in {"save_user_details", "get_user_details"}) =>
        /\ (last'.req.cred.kind = "signed" /\ now <= last'.req.cred.exp)
              => last'.resp.code = 200
        /\ (last'.req.cred.kind = "signed" /\ now > last'.req.cred.exp)
              => last'.resp = HTTP(401, "Token expired")
        /\ last'.req.cred.kind = "forged" => last'.resp = HTTP(401, "Invalid token")
      ]_vars

\* C15: a signed token yields its subject (the handler acts for that
\* identity) at every time before its expiry and "Token expired" (401) at
\* every time after it; at the second of expiry itself the request is
\* answered one way or the other; a token that is not signed with the
\* server's key is "Invalid token" (401); a refused request changes nothing.
C15_Authenticate ==
    [][(last'.req.op \in {"save_user_details", "get_user_details"}) =>
        LET cred == last'.req.cred
            acts == /\ last'.resp.code = 200
                    /\ last'.resp.detail \in {cred.sub, "{}"}
                    /\ last'.req.op = "save_user_details"
                          => /\ users_col' = users_col \cup {cred.sub}
                             /\ last'.resp.detail = cred.sub
            expired == last'.resp = HTTP(401, "Token expired") /\ UNCHANGED users_col
        IN  /\ (cred.kind = "signed" /\ now < cred.exp) => acts
            /\ (cred.kind = "signed" /\ now > cred.exp) => expired
            /\ (cred.kind = "signed" /\ now = cred.exp) => (acts \/ expired)
            /\ cred.kind = "forged"
                  => last'.resp = HTTP(401, "Invalid token") /\ UNCHANGED users_col
      ]_vars

\* C15 witness: a token with a lifetime of one second, presented two
\* seconds after it was minted, was just refused as expired.
C15_Witness ==
    /\ ACCESS_TOKEN_EXPIRE_SECONDS = 1
    /\ last.req.cred.kind = "signed"
    /\ now = (last.req.cred.exp - ACCESS_TOKEN_EXPIRE_SECONDS) + 2
    /\ last.resp = HTTP(401, "Token expired")

\* C16: /send-otp answers 200 in the step that stores the record and queues
\* the delivery; the delivery task, whether it sends or fails, answers no
\* client and changes neither the store nor the database, so the record
\* stays and a verify with the stored code is not refused.
C16_DeliveryFailureKeepsIssuance ==
    [][/\ (last'.req.op = "send_otp" /\ last'.issued # Nil)
            => /\ last'.resp = HTTP(200, "OTP dispatched")
               /\ redis'[otp_key(normalize_phone_e164(last'.req.phone_number))]
                     = [hash |-> hmac_hash(last'.issued),
                        expires_at |-> now + OTP_TTL_SECONDS]
               /\ \E p \in Procs : pc[p] = "idle" /\ pc'[p] = "deliver_otp"
       /\ \A p \in Procs :
            (pc[p] = "deliver_otp" /\ pc'[p] # "deliver_otp")
              => /\ pc'[p] = "idle"
                 /\ last'.req.op = "deliver_otp"
                 /\ last'.resp \in {HTTP(0, "OTP sent"), HTTP(0, "Failed to deliver OTP")}
                 /\ UNCHANGED <<redis, users_col, carts_col, orders_col,
                                products_collection, tokens, consumed>>
       /\ (/\ last'.req.op = "verify_otp" /\ last'.resp.code # 200
           /\ normalize_phone_e164(last'.req.phone_number) \in Identities)
            => ~Stored(otp_key(normalize_phone_e164(last'.req.phone_number)),
                       last'.req.otp)
      ]_vars

\* C16 witness: a delivery has just failed and a code is still stored.
C16_Witness ==
    /\ last.resp = HTTP(0, "Failed to deliver OTP")
    /\ \E ph \in Identities, otp \in Codes : Stored(otp_key(ph), otp)

\* C17: a record leaves the store only when its TTL runs out or when a
\* verify that carries the code of that very record deletes it.
C17_DestroyedOnlyByOwnVerify ==
    [][\A k \in RedisKeys :
        (redis[k] # NoRecord /\ redis'[k] = NoRecord) =>
            \/ now' > now /\ redis[k].expires_at <= now'
            \/ \E p \in Procs :
                /\ pc[p] = "verify_otp_delete" /\ pc'[p] = "idle"
                /\ k = otp_key(normalize_phone_e164(req[p].phone_number))
                /\ redis[k].hash = hmac_hash(req[p].otp)
            \/ \E p \in Procs :
                /\ pc[p] = "verify_delivery_delete" /\ pc'[p] = "verify_delivery_dec"
                /\ k = delivery_otp_key(req[p].order_id)
                /\ redis[k].hash = hmac_hash(req[p].otp)
      ]_vars

\* C18: the status of an order changes only from "Order Placed" to
\* "Dispatched", from "Dispatched" to "Delivered", or from "Order Placed" to
\* "Cancelled".
C18_StatusTransitions ==
    [][\A o \in 1..Len(orders_col) :
        orders_col'[o].status # orders_col[o].status =>
            <<orders_col[o].status, orders_col'[o].status>> \in
                {<<"Order Placed", "Dispatched">>,
                 <<"Dispatched", "Delivered">>,
                 <<"Order Placed", "Cancelled">>}
      ]_vars

\* C19: records are isolated by key.  A record under otp:<phone> changes
\* only by a /send-otp or a /verify-otp for that phone, a record under
\* delivery_otp:<order_id> only by a send-delivery-otp or a verify-delivery
\* for that order id; a verify passes only on the live record under its own
\* key; and an order is set to Delivered, and stock is taken for its items,
\* only by a verify-delivery that named that order.
C19_KeysIsolated ==
    [][/\ \A k \in DOMAIN redis :
            redis'[k] # redis[k] =>
                \/ now' > now
                \/ /\ k[1] = "otp"
                   /\ \/ /\ last'.req.op = "send_otp"
                         /\ normalize_phone_e164(last'.req.phone_number) = k[2]
                      \/ \E p \in Procs :
                            /\ pc[p] = "verify_otp_delete"
                            /\ normalize_phone_e164(req[p].phone_number) = k[2]
                \/ /\ k[1] = "delivery_otp"
                   /\ \/ /\ last'.req.op = "send_delivery_otp"
                         /\ last'.req.order_id = k[2]
                      \/ \E p \in Procs :
                            /\ pc[p] = "verify_delivery_delete"
                            /\ req[p].order_id = k[2]
       /\ \A p \in Procs :
            /\ (pc[p] = "idle" /\ pc'[p] = "verify_otp_delete")
                  => Stored(<<"otp", normalize_phone_e164(req'[p].phone_number)>>,
                            req'[p].otp)
            /\ (pc[p] = "idle" /\ pc'[p] = "verify_delivery_update")
                  => /\ Stored(<<"delivery_otp", req'[p].order_id>>, req'[p].otp)
                     /\ loc'[p].obj_id = ObjectId(req'[p].order_id)
       /\ \A o \in 1..Len(orders_col) :
            orders_col'[o] # orders_col[o] =>
                \E p \in Procs :
                    /\ pc[p] = "verify_delivery_update"
                    /\ ObjectId(req[p].order_id) = o
       /\ products_collection' # products_collection =>
                \E p \in Procs :
                    /\ pc[p] = "verify_delivery_dec"
                    /\ loc[p].items = orders_col[ObjectId(req[p].order_id)].items
                    /\ orders_col[ObjectId(req[p].order_id)].status = "Delivered"
      ]_vars

\* C19 witness: the code stored for one order was just presented for
\* another order, which has not been delivered, and was refused.
C19_Witness ==
    /\ last.req.op = "verify_order_delivery"
    /\ last.resp.code = 400
    /\ OrderExists(ObjectId(last.req.order_id))
    /\ orders_col[ObjectId(last.req.order_id)].status # "Delivered"
    /\ \E a \in 1..Len(orders_col) :
        /\ a # ObjectId(last.req.order_id)
        /\ Stored(<<"delivery_otp", <<a, "hex">>>>, last.req.otp)

\* C20: with no /cart/add after the carts were filled, at most one order
\* is created from the cart of an identity.
C20_OneOrderPerCart ==
    \A ph \in Identities :
        Cardinality({o \in 1..Len(orders_col) : orders_col[o].user = ph}) <= 1

\* C21: in every reachable state the on-hand quantity of every product is
\* non-negative, whatever add_to_cart, place_order and verify_delivery
\* requests were served.
C21_StockNeverNegative ==
    \A pr \in Products : products_collection[pr] >= 0

====
